---------------------------- MODULE Spec2Model ----------------------------
(***************************************************************************)
(* A model of src/main.py of book-tracker-api: the pagination loop of      *)
(* fetch_books, the flattening done by normalize_item, and the part of     *)
(* main that calls fetch_books and handles its outcome.                    *)
(*                                                                         *)
(* Python values are tagged records [t |-> type, v |-> payload], so that   *)
(* None, "", 0, [] and {} stay distinct values that are all falsy, and a   *)
(* call of .get on something that is not a dict, or a join over elements   *)
(* that are not strings, raises as it does in Python.                      *)
(***************************************************************************)
EXTENDS Integers, Sequences, FiniteSets, TLC

VARIABLES
    args,       \* main's parsed arguments: [max, page_size, api_key]
    page_size,  \* fetch_books' parameter page_size (re-bound by the clamp)
    results,    \* fetch_books' accumulator
    start,      \* fetch_books' running offset
    http,       \* every HTTP exchange of the fetch, in order; the last may be in flight
    pc,         \* position of the single thread of control
    error,      \* the exception that left fetch_books ("" while none)
    rows,       \* main's variable rows (Unassigned until fetch_books returns)
    exit_code,  \* the process exit status (-1 while running)
    this_page,  \* fetch_books' local this_page (0 before the first iteration)
    item,       \* normalize_item's argument (specification NormSpec)
    row         \* normalize_item's outcome  (specification NormSpec)

vars == <<args, page_size, results, start, this_page, http, pc, error, rows,
          exit_code, item, row>>

fetchVars == <<args, page_size, results, start, this_page, http, pc, error, rows,
               exit_code>>

normVars == <<item, row>>

-----------------------------------------------------------------------------
(* Bounds of the model.                                                    *)

\* Largest "small" --max explored exhaustively (all page counts 0..this_page+1).
MaxResults == 5

\* The large --max values explored are MaxPageSize+1 .. MaxPageSize+BigExtra.
BigExtra == 2

\* Google Books' per-request limit, the upper end of the clamp.
MaxPageSize == 40

-----------------------------------------------------------------------------
(* Python values.                                                          *)

PyNone == [t |-> "none", v |-> <<>>]

PyStr(s) == [t |-> "str", v |-> s]

PyInt(n) == [t |-> "int", v |-> n]

PyBool(b) == [t |-> "bool", v |-> b]

PyList(l) == [t |-> "list", v |-> l]

PyDict(d) == [t |-> "dict", v |-> d]

EmptyDict == PyDict(<<>>)

EmptyList == PyList(<<>>)

\* An exception propagating out of an expression.
Raise(e) == [t |-> "raise", v |-> e]

IsRaise(x) == x.t = "raise"

\* Python truthiness: None, False, 0, "", [] and {} are falsy.
Truthy(x) ==
    CASE x.t = "none" -> FALSE
      [] x.t = "bool" -> x.v
      [] x.t = "int"  -> x.v # 0
      [] x.t = "str"  -> x.v # ""
      [] x.t = "list" -> Len(x.v) > 0
      [] x.t = "dict" -> DOMAIN x.v # {}
      [] OTHER        -> TRUE

\* a or b
PyOr(a, b) == IF Truthy(a) THEN a ELSE b

\* d.get(k, default): AttributeError when d is not a dict.
PyGet(d, k, default) ==
    IF d.t # "dict" THEN Raise("AttributeError")
    ELSE IF k \in DOMAIN d.v THEN d.v[k] ELSE default

\* isinstance(x, list)
IsList(x) == x.t = "list"

RECURSIVE JoinFrom(_, _)
JoinFrom(l, i) ==
    IF i > Len(l) THEN ""
    ELSE IF i = Len(l) THEN l[i].v
    ELSE l[i].v \o ", " \o JoinFrom(l, i + 1)

\* ", ".join(x) for a list x: TypeError when an element is not a str.
PyJoin(x) ==
    IF \E i \in 1..Len(x.v) : x.v[i].t # "str" THEN Raise("TypeError")
    ELSE PyStr(JoinFrom(x.v, 1))

-----------------------------------------------------------------------------
(* normalize_item                                                          *)

\* A variant of ListField without the "or []" default.
ListFieldNoDefault(volume, k) == PyGet(volume, k, PyNone)

\* volume.get("authors") or []      (also used for "categories")
ListField(volume, k) == PyOr(PyGet(volume, k, PyNone), EmptyList)

\* ", ".join(x) if isinstance(x, list) else x
JoinIfList(x) == IF IsList(x) THEN PyJoin(x) ELSE x

\* item.get(k, {}) or {}
SubMapping(it, k) == PyOr(PyGet(it, k, EmptyDict), EmptyDict)

\* The order in which the row's fields are evaluated and inserted.
RowFields ==
    << "id", "title", "subtitle", "authors", "publisher", "publishedDate",
       "description", "pageCount", "categories", "averageRating",
       "ratingsCount", "language", "infoLink", "previewLink",
       "canonicalVolumeLink", "isEbook", "webReaderLink" >>

normalize_item(it) ==
    LET volume == SubMapping(it, "volumeInfo")
        sale   == SubMapping(it, "saleInfo")
        access == SubMapping(it, "accessInfo")
    IN  IF volume.t # "dict" THEN Raise("AttributeError")
        ELSE
        LET authors    == ListField(volume, "authors")
            categories == ListField(volume, "categories")
            joinedA    == JoinIfList(authors)
            joinedC    == JoinIfList(categories)
        IN  IF IsRaise(joinedA) THEN joinedA
            ELSE IF IsRaise(joinedC) THEN joinedC
            ELSE IF sale.t # "dict" THEN Raise("AttributeError")
            ELSE IF access.t # "dict" THEN Raise("AttributeError")
            ELSE PyDict(
              [ id                  |-> PyGet(it, "id", PyNone),
                title               |-> PyGet(volume, "title", PyNone),
                subtitle            |-> PyGet(volume, "subtitle", PyNone),
                authors             |-> joinedA,
                publisher           |-> PyGet(volume, "publisher", PyNone),
                publishedDate       |-> PyGet(volume, "publishedDate", PyNone),
                description         |-> PyGet(volume, "description", PyNone),
                pageCount           |-> PyGet(volume, "pageCount", PyNone),
                categories          |-> joinedC,
                averageRating       |-> PyGet(volume, "averageRating", PyNone),
                ratingsCount        |-> PyGet(volume, "ratingsCount", PyNone),
                language            |-> PyGet(volume, "language", PyNone),
                infoLink            |-> PyGet(volume, "infoLink", PyNone),
                previewLink         |-> PyGet(volume, "previewLink", PyNone),
                canonicalVolumeLink |-> PyGet(volume, "canonicalVolumeLink", PyNone),
                isEbook             |-> PyGet(sale, "isEbook", PyNone),
                webReaderLink       |-> PyGet(access, "webReaderLink", PyNone) ])

-----------------------------------------------------------------------------
(* Raw items: what the API may put in a response, and what normalize_item  *)
(* may be handed.  Any field may be absent, null or of an unexpected type. *)

\* Marks a key that is left out of a mapping under construction.
Absent == [t |-> "absent", v |-> <<>>]

\* Marks "a mapping built from the field choices" among the volumeInfo options.
Mapping == [t |-> "mapping", v |-> <<>>]

\* The dict holding pairs[i][1] : pairs[i][2] for every pair whose value is not Absent.
MkDict(pairs) ==
    LET present == {i \in 1..Len(pairs) : pairs[i][2].t # "absent"}
    IN  PyDict([k \in {pairs[i][1] : i \in present} |->
                  pairs[CHOOSE i \in present : pairs[i][1] = k][2]])

AuthorsOptions ==
    << Absent, PyNone, EmptyList,
       PyList(<<PyStr("A")>>), PyList(<<PyStr("A"), PyStr("B")>>),
       PyStr("A B"), PyList(<<PyInt(1)>>), PyList(<<PyStr("A"), PyNone>>) >>

CategoriesOptions ==
    << Absent, PyList(<<PyStr("X"), PyStr("Y")>>), PyStr("X"), PyList(<<PyNone>>) >>

TitleOptions == << Absent, PyStr("T") >>

VolumeOptions == << Absent, PyNone, Mapping, PyStr("vol"), EmptyList, PyInt(7) >>

SaleOptions ==
    << Absent, PyNone, MkDict(<< <<"isEbook", PyBool(TRUE)>> >>), PyStr("sale") >>

AccessOptions ==
    << Absent, MkDict(<< <<"webReaderLink", PyStr("http://r")>> >>), PyInt(5) >>

IdOptions == << Absent, PyStr("b1") >>

MkVolume(vol, title, authors, categories) ==
    IF vol.t = "mapping"
    THEN MkDict(<< <<"title", title>>, <<"authors", authors>>,
                   <<"categories", categories>> >>)
    ELSE vol

MkItem(id, volume, sale, access) ==
    MkDict(<< <<"id", id>>, <<"volumeInfo", volume>>, <<"saleInfo", sale>>,
              <<"accessInfo", access>> >>)

\* The upstream result list: the item at zero-based position p.  Its shape
\* cycles through the well-formed variants the API produces.
Catalogue(p) ==
    LET id == PyStr(ToString(p))
    IN  CASE p % 4 = 0 ->
               MkItem(id,
                      MkVolume(Mapping, PyStr("T"),
                               PyList(<<PyStr("A"), PyStr("B")>>),
                               PyList(<<PyStr("X")>>)),
                      MkDict(<< <<"isEbook", PyBool(FALSE)>> >>),
                      MkDict(<< <<"webReaderLink", PyStr("http://r")>> >>))
          [] p % 4 = 1 -> MkItem(id, Absent, Absent, Absent)
          [] p % 4 = 2 ->
               MkItem(id, MkVolume(Mapping, PyStr("T"), PyStr("A B"), Absent),
                      PyNone, Absent)
          [] OTHER -> MkItem(id, PyNone, Absent, PyNone)

\* An item the normalizer cannot digest: authors holds a non-string.
Malformed(p) ==
    MkItem(PyStr(ToString(p)),
           MkVolume(Mapping, Absent, PyList(<<PyInt(1)>>), Absent),
           Absent, Absent)

\* A page of n items served from upstream position s; when bad, its last
\* item is malformed.
PageItems(s, n, bad) ==
    [i \in 1..n |-> IF bad /\ i = n THEN Malformed(s + i - 1)
                    ELSE Catalogue(s + i - 1)]

\* The numbers of items a response to a request for tp items may hold: the
\* API is not trusted to honour maxResults, so up to tp + 1.  For a large
\* page only the empty, one-short, exact and one-over pages are explored.
Counts(tp) ==
    IF tp <= MaxResults + 1 THEN 0..(tp + 1)
    ELSE {0, tp - 1, tp, tp + 1}

\* HTTP status codes the API may answer with.
Statuses == {200, 201, 404, 500}

\* The values --page-size takes for a given --max.
PageSizeArgs(max) ==
    IF max <= MaxResults THEN (-1..MaxResults) \cup {MaxPageSize, MaxPageSize + 1}
    ELSE {MaxPageSize, MaxPageSize + 1}

\* The values --max takes.
MaxArgs == (-1..MaxResults) \cup ((MaxPageSize + 1)..(MaxPageSize + BigExtra))

\* The values api_key takes: os.getenv(...).strip() or None.
ApiKeyOptions == << PyNone, PyStr("K") >>

Unassigned == [t |-> "unassigned", v |-> <<>>]

NotCalled == [t |-> "notcalled", v |-> <<>>]

-----------------------------------------------------------------------------
(* fetch_books                                                             *)

Min(a, b) == IF a < b THEN a ELSE b

Max(a, b) == IF a > b THEN a ELSE b

\* A variant of ClampPageSize without the upper limit.
ClampNoUpper(p) == Max(1, p)

\* page_size = max(1, min(page_size, 40))
ClampPageSize(p) == Max(1, Min(p, MaxPageSize))

\* A variant of LoopCond that is off by one.
LoopCondLe(res, max) == Len(res) <= max

\* while len(results) < max_results
LoopCond(res, max) == Len(res) < max

\* this_page = min(page_size, remaining)
ThisPage(ps, remaining) == Min(ps, remaining)

\* The request's params dict; "key" is added only for a truthy api_key.
Params(s, tp, key) ==
    IF Truthy(key)
    THEN [q |-> "atomic habits", startIndex |-> s, maxResults |-> tp, key |-> key.v]
    ELSE [q |-> "atomic habits", startIndex |-> s, maxResults |-> tp]

\* A variant of StatusOk that fails on server errors only.
StatusOkBelow500(code) == code < 500

\* resp.status_code != 200 is the failure test.
StatusOk(code) == code = 200

\* items = data.get("items") or []
ItemsOf(data) == PyOr(PyGet(data, "items", PyNone), EmptyList)

\* Variants of NextStart: an assignment instead of the increment, and an
\* advance by the number of items received.
NextStartAssign(s, tp, n) == tp

NextStartByItems(s, tp, n) == s + n

\* start += this_page
NextStart(s, tp, n) == s + tp

\* The rows of the items normalized so far, up to the first item that raises.
RECURSIVE Normalized(_, _)
Normalized(items, i) ==
    IF i > Len(items) THEN <<>>
    ELSE LET r == normalize_item(items[i])
         IN  IF IsRaise(r) THEN <<r>> ELSE <<r>> \o Normalized(items, i + 1)

\* The exchange in flight, and the log with its response filled in.
\* status 0: no response yet; status -1: the transport failed.
\* count: the number of items of the response; -1 when no items were read.
InFlight == http[Len(http)]

Answered(status, count) ==
    [http EXCEPT ![Len(http)] = [@ EXCEPT !.status = status, !.count = count]]

\* fetch_books' exit by an exception e: main's rows stays unassigned.
RaiseOut(e) ==
    /\ error' = e
    /\ pc' = "fetch_raised"
    /\ UNCHANGED <<args, page_size, start, this_page, rows, exit_code>>

\* lines 48-50: the call from main, the accumulator, the offset, the clamp.
FetchEnter ==
    /\ pc = "main"
    /\ results' = <<>>
    /\ start' = 0
    /\ page_size' = ClampPageSize(page_size)
    /\ pc' = "while"
    /\ UNCHANGED <<args, this_page, http, error, rows, exit_code, normVars>>

\* lines 52-64: one more iteration; the GET is issued.
IssueRequest ==
    /\ pc = "while"
    /\ LoopCond(results, args.max)
    /\ LET remaining == args.max - Len(results)
           tp == ThisPage(page_size, remaining)
       IN  /\ this_page' = tp
           /\ http' = Append(http, [params     |-> Params(start, tp, args.api_key),
                                    rowsBefore |-> Len(results),
                                    status     |-> 0,
                                    count      |-> -1])
    /\ pc' = "get"
    /\ UNCHANGED <<args, page_size, results, start, error, rows, exit_code, normVars>>

\* lines 52, 79: the loop condition fails; results goes back to main.
FetchReturn ==
    /\ pc = "while"
    /\ ~LoopCond(results, args.max)
    /\ rows' = PyList(results)
    /\ pc' = "fetch_returned"
    /\ UNCHANGED <<args, page_size, results, start, this_page, http, error,
                   exit_code, normVars>>

\* line 64: requests.get raises (connection failure, timeout).
TransportFailure ==
    /\ pc = "get"
    /\ http' = Answered(-1, -1)
    /\ RaiseOut("ConnectionError")
    /\ UNCHANGED <<results, normVars>>

\* lines 65-66: a status other than 200.
HttpFailure ==
    /\ pc = "get"
    /\ \E code \in Statuses :
          /\ ~StatusOk(code)
          /\ http' = Answered(code, -1)
    /\ RaiseOut("RuntimeError")
    /\ UNCHANGED <<results, normVars>>

\* line 68-69: resp.json() raises on a body that is not JSON, and data.get
\* raises on a JSON body that is not an object.
BadBody ==
    /\ pc = "get"
    /\ \E code \in Statuses, e \in {"JSONDecodeError", "AttributeError"} :
          /\ StatusOk(code)
          /\ http' = Answered(code, -1)
          /\ RaiseOut(e)
    /\ UNCHANGED <<results, normVars>>

\* A variant of EmptyPage that goes on with the loop instead of leaving it.
EmptyPageContinue ==
    /\ pc = "get"
    /\ http' = Answered(200, 0)
    /\ pc' = "while"
    /\ UNCHANGED <<args, page_size, results, start, this_page, error, rows,
                   exit_code, normVars>>

\* lines 68-71, 79: items is absent, null or empty; break, and return results.
EmptyPage ==
    /\ pc = "get"
    /\ \E code \in Statuses,
          data \in {EmptyDict, MkDict(<< <<"items", PyNone>> >>),
                    MkDict(<< <<"items", EmptyList>> >>)} :
          /\ StatusOk(code)
          /\ ~Truthy(ItemsOf(data))
          /\ http' = Answered(code, 0)
    /\ rows' = PyList(results)
    /\ pc' = "fetch_returned"
    /\ UNCHANGED <<args, page_size, results, start, this_page, error, exit_code,
                   normVars>>

\* lines 68-77: a page of items; each is normalized and appended, in order.
\* An item normalize_item raises on ends the fetch with that exception.
Page ==
    /\ pc = "get"
    /\ \E code \in Statuses, n \in Counts(this_page) \ {0}, bad \in BOOLEAN :
          LET data  == MkDict(<< <<"items",
                                   PyList(PageItems(InFlight.params.startIndex, n, bad))>> >>)
              items == ItemsOf(data)
              done  == Normalized(items.v, 1)
              last  == done[Len(done)]
          IN  /\ StatusOk(code)
              /\ Truthy(items)
              /\ http' = Answered(code, Len(items.v))
              /\ IF IsRaise(last)
                 THEN /\ results' = results \o SubSeq(done, 1, Len(done) - 1)
                      /\ RaiseOut(last.v)
                 ELSE /\ results' = results \o done
                      /\ start' = NextStart(start, this_page, Len(items.v))
                      /\ pc' = "while"
                      /\ UNCHANGED <<args, page_size, this_page, error, rows, exit_code>>
    /\ UNCHANGED normVars

-----------------------------------------------------------------------------
(* main, around the call of fetch_books                                    *)

\* lines 107-109: the except clause; the error is printed, exit status 1.
MainExcept ==
    /\ pc = "fetch_raised"
    /\ exit_code' = 1
    /\ pc' = "exit"
    /\ UNCHANGED <<args, page_size, results, start, this_page, http, error, rows,
                   normVars>>

\* lines 111-113: no rows; "No results found", exit status 0.
MainNoResults ==
    /\ pc = "fetch_returned"
    /\ ~Truthy(rows)
    /\ exit_code' = 0
    /\ pc' = "exit"
    /\ UNCHANGED <<args, page_size, results, start, this_page, http, error, rows,
                   normVars>>

\* lines 115-126: the rows go to the CSV file or the preview; the process
\* then ends normally.
MainOutput ==
    /\ pc = "fetch_returned"
    /\ Truthy(rows)
    /\ exit_code' = 0
    /\ pc' = "exit"
    /\ UNCHANGED <<args, page_size, results, start, this_page, http, error, rows,
                   normVars>>

Init ==
    /\ \E max \in MaxArgs :
         \E ps \in PageSizeArgs(max), k \in 1..Len(ApiKeyOptions) :
            /\ args = [max |-> max, page_size |-> ps, api_key |-> ApiKeyOptions[k]]
            /\ page_size = ps
    /\ results = <<>>
    /\ start = 0
    /\ this_page = 0
    /\ http = <<>>
    /\ pc = "main"
    /\ error = ""
    /\ rows = Unassigned
    /\ exit_code = -1
    /\ item = NotCalled
    /\ row = NotCalled

Next ==
    \/ FetchEnter
    \/ IssueRequest
    \/ FetchReturn
    \/ TransportFailure
    \/ HttpFailure
    \/ BadBody
    \/ EmptyPage
    \/ Page
    \/ MainExcept
    \/ MainNoResults
    \/ MainOutput

Spec == Init /\ [][Next]_vars

\* requests.get returns or raises within its timeout and every other step is
\* ordinary sequential code, so a step that can be taken is taken.
FairSpec == Spec /\ WF_vars(Next)

-----------------------------------------------------------------------------
(* normalize_item as a function of its argument                            *)

NormInit ==
    /\ \E iv \in 1..Len(VolumeOptions), it \in 1..Len(TitleOptions),
          ia \in 1..Len(AuthorsOptions), ic \in 1..Len(CategoriesOptions),
          is \in 1..Len(SaleOptions), ix \in 1..Len(AccessOptions),
          ii \in 1..Len(IdOptions) :
          item = MkItem(IdOptions[ii],
                        MkVolume(VolumeOptions[iv], TitleOptions[it],
                                 AuthorsOptions[ia], CategoriesOptions[ic]),
                        SaleOptions[is], AccessOptions[ix])
    /\ row = NotCalled
    /\ args = [max |-> 0, page_size |-> 0, api_key |-> PyNone]
    /\ page_size = 0
    /\ results = <<>>
    /\ start = 0
    /\ this_page = 0
    /\ http = <<>>
    /\ pc = "normalize"
    /\ error = ""
    /\ rows = Unassigned
    /\ exit_code = -1

\* lines 15-42: the call; row is the dict returned or the exception raised.
NormalizeItem ==
    /\ pc = "normalize"
    /\ row' = normalize_item(item)
    /\ pc' = "normalized"
    /\ UNCHANGED <<args, page_size, results, start, this_page, http, error, rows,
                   exit_code, item>>

NormNext == NormalizeItem

NormSpec == NormInit /\ [][NormNext]_vars

-----------------------------------------------------------------------------
(* Properties of fetch_books                                               *)

\* The number of HTTP requests issued so far.
NumRequests == Len(http)

\* Exchange i got a response with exactly as many items as it asked for.
Exact(i) == http[i].count = http[i].params.maxResults

\* Exchange i got a non-empty page with fewer items than it asked for.
Short(i) == http[i].count > 0 /\ http[i].count < http[i].params.maxResults

\* The index of the last exchange that has been answered.
LastAnswered == IF http # <<>> /\ InFlight.status = 0 THEN Len(http) - 1 ELSE Len(http)

\* The sum of the maxResults parameters of the first n requests.
RECURSIVE Requested(_)
Requested(n) == IF n = 0 THEN 0 ELSE Requested(n - 1) + http[n].params.maxResults

\* The number of items the first n responses held.
RECURSIVE Received(_)
Received(n) == IF n = 0 THEN 0 ELSE Received(n - 1) + Max(0, http[n].count)

\* The rows of the items the first n responses held, in upstream order.
RECURSIVE Delivered(_)
Delivered(n) ==
    IF n = 0 THEN <<>>
    ELSE Delivered(n - 1) \o
         [k \in 1..Max(0, http[n].count) |->
            normalize_item(Catalogue(http[n].params.startIndex + k - 1))]

FetchDone == pc \in {"fetch_returned", "fetch_raised", "exit"}

FetchReturned == rows.t = "list"

\* C1: for every maxResults >= 0 the accumulator never holds more than
\* maxResults rows, and neither does the list fetch_books returns, whatever
\* the API answers (a page larger than asked for included).
C1_LengthWithinMax ==
    args.max >= 0 =>
        /\ Len(results) <= args.max
        /\ FetchReturned => Len(rows.v) <= args.max

\* C2: a page response with a status outside 200..299 is the last exchange of
\* the fetch: fetch_books raises its HTTP error there, no request follows, and
\* main's rows is never assigned, even when earlier pages were accumulated.
C2_Non2xxRaises ==
    \A i \in 1..Len(http) :
        (http[i].status > 0 /\ ~(http[i].status \in 200..299)) =>
            /\ i = Len(http)
            /\ pc \in {"fetch_raised", "exit"}
            /\ error = "RuntimeError"
            /\ rows = Unassigned
            /\ pc = "exit" => exit_code = 1

C2_Witness ==
    /\ Len(http) >= 2
    /\ InFlight.status = 404
    /\ Len(results) > 0
    /\ pc = "exit"

\* C3: a response that passed the status check and whose items list is empty,
\* absent or null is the last exchange of the fetch: no request follows it,
\* and fetch_books returns exactly the rows of the earlier pages, in order.
C3_EmptyPageEndsFetch ==
    \A i \in 1..Len(http) :
        (http[i].status = 200 /\ http[i].count = 0) =>
            /\ i = Len(http)
            /\ pc \in {"fetch_returned", "exit"}
            /\ error = ""
            /\ rows = PyList(Delivered(i - 1))
            /\ Len(rows.v) = http[i].rowsBefore

C3_Witness ==
    /\ Len(http) >= 3
    /\ InFlight.status = 200
    /\ InFlight.count = 0
    /\ Len(results) >= 2
    /\ pc = "fetch_returned"

\* C4: with maxResults <= 0 no HTTP request is ever issued, fetch_books does
\* not raise, and what it returns is the empty list.
C4_NoRequestWhenMaxNotPositive ==
    args.max <= 0 =>
        /\ NumRequests = 0
        /\ pc \notin {"get", "fetch_raised"}
        /\ error = ""
        /\ pc \in {"fetch_returned", "exit"} => rows = EmptyList

C4_Witness ==
    /\ args.max < 0
    /\ args.page_size > MaxPageSize
    /\ pc = "fetch_returned"
    /\ rows = EmptyList

\* C5: every request's maxResults parameter lies in 1..40 and equals
\* min(clamp(pageSize, 1, 40), maxResults - rows accumulated so far), for the
\* caller's pageSize whatever it is.
C5_PageSizeClamped ==
    \A i \in 1..Len(http) :
        LET p       == args.page_size
            clamped == IF p < 1 THEN 1 ELSE IF p > 40 THEN 40 ELSE p
            needed  == args.max - http[i].rowsBefore
        IN  /\ http[i].params.maxResults \in 1..40
            /\ http[i].params.maxResults = IF clamped < needed THEN clamped ELSE needed

C5_Witness ==
    /\ args.page_size > 40
    /\ Len(http) = 2
    /\ http[1].params.maxResults = 40
    /\ http[2].params.maxResults = 2

\* C6: while every page but the last answered one held exactly the number of
\* items requested, the first request has startIndex 0 and every later one
\* has the sum of the maxResults parameters of the requests before it, which
\* is more than its predecessor's.
C6_StartIsRunningSum ==
    (\A i \in 1..(LastAnswered - 1) : Exact(i)) =>
        \A k \in 1..Len(http) :
            /\ http[k].params.startIndex = Requested(k - 1)
            /\ k = 1 => http[k].params.startIndex = 0
            /\ k > 1 => http[k].params.startIndex > http[k - 1].params.startIndex

C6_Witness ==
    /\ Len(http) = 3
    /\ http[1].params.maxResults = 2
    /\ Exact(1)
    /\ Exact(2)
    /\ http[3].params.startIndex = 4
    /\ InFlight.status = 200
    /\ InFlight.count = 0

\* C9 as stated: every request's startIndex is the number of rows accumulated
\* when it is issued.
C9_StartEqualsRowCount ==
    \A i \in 1..Len(http) : http[i].params.startIndex = http[i].rowsBefore

\* C9, amended: every request's startIndex is the number of rows accumulated
\* when it is issued plus the shortfall of the earlier pages (items requested
\* minus items received).
C9_StartIsRowsPlusShortfall ==
    \A i \in 1..Len(http) :
        /\ http[i].rowsBefore = Received(i - 1)
        /\ http[i].params.startIndex =
              http[i].rowsBefore + (Requested(i - 1) - Received(i - 1))

C9_Witness ==
    /\ Len(http) = 2
    /\ Short(1)
    /\ http[2].params.startIndex > http[2].rowsBefore

\* C10: every fetch ends, it never issues more than max(0, maxResults)
\* requests, and an iteration that goes back to the loop test has added at
\* least one row.
C10_Terminates ==
    /\ <>FetchDone
    /\ [](NumRequests <= Max(0, args.max))
    /\ [][(pc = "get" /\ pc' = "while") => Len(results') > Len(results)]_vars

C10_Witness ==
    /\ args.max >= 3
    /\ NumRequests = args.max
    /\ pc = "fetch_returned"

-----------------------------------------------------------------------------
(* Properties of normalize_item                                            *)

FieldSet == {RowFields[i] : i \in 1..Len(RowFields)}

\* C7: normalize_item returns a row for every raw item mapping; it never
\* raises.
C7_NormalizeTotal == pc = "normalized" => row.t = "dict"

\* C8 as stated: the row of the empty item has the 17 fields, every one None.
C8_EmptyItemAllNone ==
    (pc = "normalized" /\ item = EmptyDict) =>
        /\ row.t = "dict"
        /\ DOMAIN row.v = FieldSet
        /\ Cardinality(DOMAIN row.v) = 17
        /\ \A f \in FieldSet : row.v[f] = PyNone

\* C8, amended: the row of the empty item has the 17 fields; authors and
\* categories are the empty string (the join of the default empty list) and
\* the other fifteen are None.
C8_EmptyItemRow ==
    (pc = "normalized" /\ item = EmptyDict) =>
        /\ row.t = "dict"
        /\ DOMAIN row.v = FieldSet
        /\ Cardinality(DOMAIN row.v) = 17
        /\ \A f \in FieldSet :
              row.v[f] = IF f \in {"authors", "categories"} THEN PyStr("") ELSE PyNone

C8_Witness == pc = "normalized" /\ item = EmptyDict /\ row.t = "dict"

=============================================================================
